---- MODULE Spec2Model ----
(***************************************************************************)
(* Model of the dashboard's client-side data cache (DataCacheService) and  *)
(* of the useCachedSSE hook that composes it with a server-sent-event      *)
(* subscription.  Time is Date.now() in milliseconds.                      *)
(***************************************************************************)
EXTENDS Integers, FiniteSets, Sequences, TLC

VARIABLES now, cache, last, page, hook, sse

vars == <<now, cache, last, page, hook, sse>>

appVars == <<page, hook, sse>>

(* ---------------------------------------------------------------------- *)
(* Bounds of the model                                                     *)
(* ---------------------------------------------------------------------- *)

\* payloads are 0..MaxPayload; 0 stands for a falsy JavaScript value
MaxPayload == 1

\* the clock no longer advances once MaxTicks expiry periods have passed
MaxTicks == 2

(* ---------------------------------------------------------------------- *)
(* DataCacheService                                                        *)
(* ---------------------------------------------------------------------- *)

CACHE_DURATION == 5 * 60 * 1000

\* a staleness threshold below the expiry threshold
StaleBelowExpiry == 60 * 1000

STALE_DURATION == 30 * 60 * 1000

\* the six CACHE_KEYS; the three pages use the *_data keys
CACHE_KEYS == [DASHBOARD |-> "dashboard_data",
               PREDICTIVE_ANALYSIS |-> "predictive_analysis_data",
               SUCTION_SYSTEM |-> "suction_system_data",
               DASHBOARD_SSE |-> "dashboard_sse_connection",
               PREDICTIVE_SSE |-> "predictive_sse_connection",
               SUCTION_SSE |-> "suction_sse_connection"]

\* the keys the model exercises
Keys == {CACHE_KEYS.DASHBOARD, CACHE_KEYS.PREDICTIVE_ANALYSIS}

\* JavaScript null
NULL == -1

Payloads == 0 .. MaxPayload

\* JavaScript truthiness of a payload or null
Truthy(v) == v # NULL /\ v # 0

\* interface CacheEntry<T>
CacheEntry(d, t, s) == [data |-> d, timestamp |-> t, isStale |-> s]

\* Map.delete
MapDelete(c, k) == [x \in (DOMAIN c) \ {k} |-> c[x]]

\* Map.set
MapSet(c, k, e) == [x \in (DOMAIN c) \cup {k} |-> IF x = k THEN e ELSE c[x]]

\* a set that keeps an entry the key already has
setKeepsExisting(c, k, d, t) ==
    IF k \in DOMAIN c THEN c ELSE MapSet(c, k, CacheEntry(d, t, FALSE))

\* a set that writes payload and timestamp but keeps the stale flag of an
\* entry the key already has
setKeepsFlag(c, k, d, t) ==
    MapSet(c, k, CacheEntry(d, t, IF k \in DOMAIN c THEN c[k].isStale ELSE FALSE))

\* set(key, data) at time t: the cache afterwards
set(c, k, d, t) == MapSet(c, k, CacheEntry(d, t, FALSE))

\* the stale test of get
getStaleByAge(age) == age > STALE_DURATION

\* the expiry test of get
getExpired(age) == age > CACHE_DURATION

\* a get that reports an expired entry as absent but leaves it in the map
getKeepsExpired(c, k, t) ==
    IF k \notin DOMAIN c
    THEN [cache |-> c, ret |-> NULL]
    ELSE IF getExpired(t - c[k].timestamp)
    THEN [cache |-> c, ret |-> NULL]
    ELSE [cache |-> c, ret |-> c[k].data]

\* get(key) at time t: the cache afterwards and the value returned
get(c, k, t) ==
    IF k \notin DOMAIN c
    THEN [cache |-> c, ret |-> NULL]
    ELSE LET age == t - c[k].timestamp
             marked == IF getStaleByAge(age)
                       THEN MapSet(c, k, [c[k] EXCEPT !.isStale = TRUE])
                       ELSE c
         IN IF getExpired(age)
            THEN [cache |-> MapDelete(marked, k), ret |-> NULL]
            ELSE [cache |-> marked, ret |-> marked[k].data]

\* a has that reports every entry of the map, whatever its age
hasIgnoresAge(c, k, t) == k \in DOMAIN c

\* has(key) at time t
has(c, k, t) ==
    IF k \notin DOMAIN c THEN FALSE
    ELSE (t - c[k].timestamp) <= CACHE_DURATION

\* an isStale that compares the age with the expiry threshold
isStaleByExpiry(c, k, t) ==
    IF k \notin DOMAIN c THEN FALSE
    ELSE (t - c[k].timestamp) > CACHE_DURATION

\* isStale(key) at time t
isStale(c, k, t) ==
    IF k \notin DOMAIN c THEN FALSE
    ELSE (t - c[k].timestamp) > STALE_DURATION

\* a clear that empties the whole cache
clearDropsAll(c, k) == [x \in {} |-> CacheEntry(NULL, 0, FALSE)]

\* clear(key): the cache afterwards
clear(c, k) == MapDelete(c, k)

\* a clearAll that removes only the entries flagged stale
clearAllStaleOnly(c) == [x \in {k \in DOMAIN c : ~c[k].isStale} |-> c[x]]

\* clearAll(): the cache afterwards
clearAll(c) == [x \in {} |-> CacheEntry(NULL, 0, FALSE)]

\* Math.round(ms / 1000) for ms >= 0
RoundSeconds(ms) == (ms + 500) \div 1000

\* getStats() at time t
getStats(c, t) ==
    [size |-> Cardinality(DOMAIN c),
     keys |-> DOMAIN c,
     entries |-> {[key |-> k,
                   age |-> RoundSeconds(t - c[k].timestamp),
                   isStale |-> c[k].isStale] : k \in DOMAIN c}]

\* a markStale that creates a stale entry for a key that has none
markStaleCreates(c, k) ==
    MapSet(c, k, IF k \in DOMAIN c THEN [c[k] EXCEPT !.isStale = TRUE]
                 ELSE CacheEntry(NULL, 0, TRUE))

\* markStale(key): the cache afterwards
markStale(c, k) ==
    IF k \in DOMAIN c
    THEN MapSet(c, k, [c[k] EXCEPT !.isStale = TRUE])
    ELSE c

(* ---------------------------------------------------------------------- *)
(* The record of the last event: operation, key, argument, returned value, *)
(* returned boolean, whether the key had an entry before the event, and    *)
(* for a render of the hook the view it returned                           *)
(* ---------------------------------------------------------------------- *)

NoView == [data |-> NULL, loading |-> FALSE, isCached |-> FALSE, isStale |-> FALSE]

Call(op, k, a, r, f, h) ==
    [op |-> op, key |-> k, arg |-> a, ret |-> r, flag |-> f, had |-> h,
     view |-> NoView]

NoCall == Call("none", "", NULL, NULL, FALSE, FALSE)

(* ---------------------------------------------------------------------- *)
(* Calls of the cache's methods                                            *)
(* ---------------------------------------------------------------------- *)

CallSet(k, d) ==
    /\ cache' = set(cache, k, d, now)
    /\ last' = Call("set", k, d, NULL, FALSE, k \in DOMAIN cache)
    /\ UNCHANGED <<now, appVars>>

CallGet(k) ==
    LET r == get(cache, k, now)
    IN /\ cache' = r.cache
       /\ last' = Call("get", k, NULL, r.ret, FALSE, k \in DOMAIN cache)
       /\ UNCHANGED <<now, appVars>>

CallHas(k) ==
    /\ last' = Call("has", k, NULL, NULL, has(cache, k, now), k \in DOMAIN cache)
    /\ UNCHANGED <<now, cache, appVars>>

CallIsStale(k) ==
    /\ last' = Call("isStale", k, NULL, NULL, isStale(cache, k, now), k \in DOMAIN cache)
    /\ UNCHANGED <<now, cache, appVars>>

CallClear(k) ==
    /\ cache' = clear(cache, k)
    /\ last' = Call("clear", k, NULL, NULL, FALSE, k \in DOMAIN cache)
    /\ UNCHANGED <<now, appVars>>

CallClearAll ==
    /\ cache' = clearAll(cache)
    /\ last' = Call("clearAll", "", NULL, NULL, FALSE, DOMAIN cache # {})
    /\ UNCHANGED <<now, appVars>>

CallGetStats ==
    /\ last' = Call("getStats", "", NULL, getStats(cache, now).size, FALSE, DOMAIN cache # {})
    /\ UNCHANGED <<now, cache, appVars>>

CallMarkStale(k) ==
    /\ cache' = markStale(cache, k)
    /\ last' = Call("markStale", k, NULL, NULL, FALSE, k \in DOMAIN cache)
    /\ UNCHANGED <<now, appVars>>

\* the steps by which Date.now() advances between two events
TickSteps == {CACHE_DURATION, STALE_DURATION + 1}

Tick(d) ==
    /\ now < MaxTicks * CACHE_DURATION
    /\ now' = now + d
    /\ last' = Call("tick", "", NULL, NULL, FALSE, FALSE)
    /\ UNCHANGED <<cache, appVars>>

(* ---------------------------------------------------------------------- *)
(* useSSE: the stream subscription the hook wraps                          *)
(* ---------------------------------------------------------------------- *)

\* the subscription before any connection: no data, not connected
SseIdle == [data |-> NULL, status |-> "idle", loading |-> FALSE]

\* useSSE(url): a subscription is opened only for a non-empty URL
sseActivate(s, url) ==
    IF url = ""
    THEN [s EXCEPT !.status = "idle", !.loading = FALSE]
    ELSE [s EXCEPT !.status = "connecting", !.loading = TRUE]

\* a subscription that goes on delivering after close()
sseIsConnectedOrClosed(s) == s.status \in {"open", "closed"}

sseIsConnected(s) == s.status = "open"

sseIsConnecting(s) == s.status = "connecting"

(* ---------------------------------------------------------------------- *)
(* The pages that mount the hook                                           *)
(* ---------------------------------------------------------------------- *)

Pages == {"Dashboard", "PredictiveAnalysis"}

\* what getSSEUrl() of a page's service returns
SSE_URL == "sse"

\* coldStart records a cold start in progress: the key had no cache entry when
\* the page mounted and no message has been delivered since
NoPage == [name |-> "none", forceRefresh |-> FALSE, isLiveMode |-> FALSE,
           coldStart |-> FALSE]

\* the cacheKey option a page passes
KeyOf(p) ==
    IF p.name = "PredictiveAnalysis"
    THEN CACHE_KEYS.PREDICTIVE_ANALYSIS
    ELSE CACHE_KEYS.DASHBOARD

\* the url argument a page passes
UrlOf(p) ==
    IF p.name = "PredictiveAnalysis"
    THEN (IF p.isLiveMode THEN SSE_URL ELSE "")
    ELSE SSE_URL

(* ---------------------------------------------------------------------- *)
(* useCachedSSE                                                            *)
(* ---------------------------------------------------------------------- *)

\* the hook's useState values at mount, and the dependencies of its effects
\* as of the last render
HookInit ==
    [isCached |-> FALSE, isStale |-> FALSE, initialLoad |-> TRUE,
     rendered |-> FALSE,
     depForce |-> FALSE, depCached |-> NULL, depStale |-> FALSE,
     depSse |-> NULL, depUrl |-> ""]

\* !url || url.trim() === ''
urlEmpty(url) == url = ""

\* a shouldShowLoading without the test for an empty URL
shouldShowLoadingNoUrlTest(url, initialLoad, cachedExists, forceRefresh, cachedIsStale, isConnecting, sseLoading) ==
    IF initialLoad /\ ~cachedExists THEN TRUE
    ELSE IF forceRefresh THEN TRUE
    ELSE IF cachedExists /\ cachedIsStale /\ isConnecting THEN TRUE
    ELSE IF cachedExists /\ ~cachedIsStale THEN FALSE
    ELSE sseLoading

\* a shouldShowLoading that reports a stale entry as loading even when no
\* reconnect is in progress
shouldShowLoadingStaleAlways(url, initialLoad, cachedExists, forceRefresh, cachedIsStale, isConnecting, sseLoading) ==
    IF urlEmpty(url) THEN FALSE
    ELSE IF initialLoad /\ ~cachedExists THEN TRUE
    ELSE IF forceRefresh THEN TRUE
    ELSE IF cachedExists /\ cachedIsStale THEN TRUE
    ELSE IF cachedExists /\ ~cachedIsStale THEN FALSE
    ELSE sseLoading

\* shouldShowLoading()
shouldShowLoading(url, initialLoad, cachedExists, forceRefresh, cachedIsStale, isConnecting, sseLoading) ==
    IF urlEmpty(url) THEN FALSE
    ELSE IF initialLoad /\ ~cachedExists THEN TRUE
    ELSE IF forceRefresh THEN TRUE
    ELSE IF cachedExists /\ cachedIsStale /\ isConnecting THEN TRUE
    ELSE IF cachedExists /\ ~cachedIsStale THEN FALSE
    ELSE sseLoading

\* the data the hook returns
data(sseData, cachedData, forceRefresh) ==
    IF Truthy(sseData) /\ ~forceRefresh THEN sseData
    ELSE IF Truthy(cachedData) /\ ~forceRefresh THEN cachedData
    ELSE NULL

\* the effect on [cacheKey, forceRefresh, cachedData, cachedIsStale]
cacheEffect(h, c, key, forceRefresh, cachedData, cachedIsStale) ==
    IF Truthy(cachedData) /\ ~forceRefresh
    THEN [hook |-> [h EXCEPT !.isCached = TRUE, !.isStale = cachedIsStale,
                             !.initialLoad = FALSE],
          cache |-> c]
    ELSE IF forceRefresh
    THEN [hook |-> [h EXCEPT !.isCached = FALSE, !.isStale = FALSE,
                             !.initialLoad = TRUE],
          cache |-> clear(c, key)]
    ELSE [hook |-> h, cache |-> c]

\* the effect on [sseResult.data]
sseDataEffect(h, sseData) ==
    IF Truthy(sseData)
    THEN [h EXCEPT !.isCached = TRUE, !.isStale = FALSE, !.initialLoad = FALSE]
    ELSE h

\* a page whose effect never resets forceRefresh
resetForceRefreshNever(p) == p

\* the page's effect on [forceRefresh]
resetForceRefresh(p) ==
    IF p.forceRefresh THEN [p EXCEPT !.forceRefresh = FALSE] ELSE p

\* an onMessage that does not overwrite an entry the key already has
onMessageKeepsExisting(h, c, key, d, t) ==
    [cache |-> setKeepsExisting(c, key, d, t),
     hook |-> [h EXCEPT !.isCached = TRUE, !.isStale = FALSE]]

\* the hook's onMessage option: the cache and the hook state afterwards
onMessage(h, c, key, d, t) ==
    [cache |-> set(c, key, d, t),
     hook |-> [h EXCEPT !.isCached = TRUE, !.isStale = FALSE]]

\* an onError that drops the cached snapshot
onErrorClears(h, c, key) ==
    [cache |-> clear(c, key),
     hook |-> [h EXCEPT !.isCached = FALSE]]

\* the hook's onError option, which only forwards the error: the cache and
\* the hook state afterwards
onError(h, c, key) == [cache |-> c, hook |-> h]

\* a refreshData that clears the entry instead of marking it
refreshDataClears(h, c, key) ==
    [cache |-> clear(c, key),
     hook |-> [h EXCEPT !.isStale = TRUE, !.initialLoad = TRUE]]

\* refreshData(): the cache and the hook state afterwards
refreshData(h, c, key) ==
    [cache |-> markStale(c, key),
     hook |-> [h EXCEPT !.isStale = TRUE, !.initialLoad = TRUE]]

\* one render of the mounted page at time t followed by the effects whose
\* dependencies changed: the values of page, hook, sse, cache, view afterwards
RenderOutcome(p, h, s, c, t) ==
    LET key == KeyOf(p)
        url == UrlOf(p)
        force == p.forceRefresh
        g == get(c, key, t)
        cachedData == g.ret
        cachedExists == has(g.cache, key, t)
        cachedIsStale == isStale(g.cache, key, t)
        first == ~h.rendered
        runSse == first \/ h.depUrl # url
        runCache == first \/ h.depForce # force \/ h.depCached # cachedData
                          \/ h.depStale # cachedIsStale
        runData == first \/ h.depSse # s.data
        runPage == first \/ h.depForce # force
        e1 == IF runCache
              THEN cacheEffect(h, g.cache, key, force, cachedData, cachedIsStale)
              ELSE [hook |-> h, cache |-> g.cache]
        h2 == IF runData THEN sseDataEffect(e1.hook, s.data) ELSE e1.hook
    IN [view |-> [data |-> data(s.data, cachedData, force),
                  loading |-> shouldShowLoading(url, h.initialLoad, cachedExists,
                                  force, cachedIsStale, sseIsConnecting(s), s.loading),
                  isCached |-> h.isCached,
                  isStale |-> h.isStale],
        cache |-> e1.cache,
        hook |-> [h2 EXCEPT !.rendered = TRUE, !.depForce = force,
                            !.depCached = cachedData, !.depStale = cachedIsStale,
                            !.depSse = s.data, !.depUrl = url],
        page |-> IF runPage THEN resetForceRefresh(p) ELSE p,
        sse |-> IF runSse THEN sseActivate(s, url) ELSE s]

(* ---------------------------------------------------------------------- *)
(* Events of the application                                               *)
(* ---------------------------------------------------------------------- *)

Mounted == page.name # "none"

\* a page is routed to: fresh component state, first render and its effects
Mount(n) ==
    /\ ~Mounted
    /\ LET p == [name |-> n, forceRefresh |-> FALSE, isLiveMode |-> FALSE,
                 coldStart |-> KeyOf([name |-> n]) \notin DOMAIN cache]
           r == RenderOutcome(p, HookInit, SseIdle, cache, now)
       IN /\ cache' = r.cache
          /\ hook' = r.hook
          /\ page' = r.page
          /\ sse' = r.sse
          /\ last' = [Call("mount", KeyOf(p), NULL, NULL, FALSE,
                               KeyOf(p) \in DOMAIN cache) EXCEPT !.view = r.view]
    /\ UNCHANGED now

\* the page is left: its state is dropped and the subscription closed
Unmount ==
    /\ Mounted
    /\ page' = NoPage
    /\ hook' = HookInit
    /\ sse' = SseIdle
    /\ last' = Call("unmount", KeyOf(page), NULL, NULL, FALSE, KeyOf(page) \in DOMAIN cache)
    /\ UNCHANGED <<now, cache>>

Render ==
    /\ Mounted
    /\ LET r == RenderOutcome(page, hook, sse, cache, now)
       IN /\ cache' = r.cache
          /\ hook' = r.hook
          /\ page' = r.page
          /\ sse' = r.sse
          /\ last' = [Call("render", KeyOf(page), NULL, NULL, FALSE,
                               KeyOf(page) \in DOMAIN cache) EXCEPT !.view = r.view]
    /\ UNCHANGED now

\* the refresh button of Dashboard: setForceRefresh(true).  React re-renders
\* for the reset effect's setForceRefresh(false) before it handles another
\* click, so no click falls between that reset and its render
ClickRefresh ==
    /\ Mounted
    /\ page.name = "Dashboard"
    /\ ~hook.depForce
    /\ page' = [page EXCEPT !.forceRefresh = TRUE]
    /\ last' = Call("forceRefresh", KeyOf(page), NULL, NULL, FALSE, KeyOf(page) \in DOMAIN cache)
    /\ UNCHANGED <<now, cache, hook, sse>>

\* handleConnect of PredictiveAnalysis
HandleConnect ==
    /\ Mounted
    /\ page.name = "PredictiveAnalysis"
    /\ ~hook.depForce
    /\ page' = [page EXCEPT !.isLiveMode = TRUE, !.forceRefresh = TRUE]
    /\ last' = Call("forceRefresh", KeyOf(page), NULL, NULL, FALSE, KeyOf(page) \in DOMAIN cache)
    /\ UNCHANGED <<now, cache, hook, sse>>

\* the refreshData function the hook returns
RefreshData ==
    /\ Mounted
    /\ LET r == refreshData(hook, cache, KeyOf(page))
       IN /\ cache' = r.cache
          /\ hook' = r.hook
    /\ last' = Call("refreshData", KeyOf(page), NULL, NULL, FALSE, KeyOf(page) \in DOMAIN cache)
    /\ UNCHANGED <<now, page, sse>>

\* the connection opens
SseOpen ==
    /\ Mounted /\ sseIsConnecting(sse)
    /\ sse' = [sse EXCEPT !.status = "open"]
    /\ last' = Call("open", KeyOf(page), NULL, NULL, FALSE, KeyOf(page) \in DOMAIN cache)
    /\ UNCHANGED <<now, cache, page, hook>>

\* a message with payload d is delivered; the event records whether it is the
\* first message of a cold start
SseMessage(d) ==
    /\ Mounted /\ sseIsConnected(sse)
    /\ sse' = [sse EXCEPT !.data = d, !.loading = FALSE]
    /\ LET r == onMessage(hook, cache, KeyOf(page), d, now)
       IN /\ cache' = r.cache
          /\ hook' = r.hook
    /\ page' = [page EXCEPT !.coldStart = FALSE]
    /\ last' = Call("message", KeyOf(page), d, NULL, page.coldStart,
                    KeyOf(page) \in DOMAIN cache)
    /\ UNCHANGED now

\* a transport error: forwarded to onError, the subscription reconnects
SseError ==
    /\ Mounted /\ (sseIsConnected(sse) \/ sseIsConnecting(sse))
    /\ sse' = [sse EXCEPT !.status = "connecting", !.loading = FALSE]
    /\ LET r == onError(hook, cache, KeyOf(page))
       IN /\ cache' = r.cache
          /\ hook' = r.hook
    /\ last' = Call("error", KeyOf(page), NULL, NULL, TRUE, KeyOf(page) \in DOMAIN cache)
    /\ UNCHANGED <<now, page>>

\* close() of the hook's result
SseClose ==
    /\ Mounted
    /\ sse.status \in {"open", "connecting"}
    /\ sse' = [sse EXCEPT !.status = "closed"]
    /\ last' = Call("close", KeyOf(page), NULL, NULL, FALSE, KeyOf(page) \in DOMAIN cache)
    /\ UNCHANGED <<now, cache, page, hook>>

\* reconnect() of the hook's result
SseReconnect ==
    /\ Mounted
    /\ sse.status = "closed"
    /\ sse' = sseActivate(sse, UrlOf(page))
    /\ last' = Call("reconnect", KeyOf(page), NULL, NULL, FALSE, KeyOf(page) \in DOMAIN cache)
    /\ UNCHANGED <<now, cache, page, hook>>

Init ==
    /\ now = 0
    /\ cache = [x \in {} |-> CacheEntry(NULL, 0, FALSE)]
    /\ last = NoCall
    /\ page = NoPage
    /\ hook = HookInit
    /\ sse = SseIdle

CacheNext ==
    \/ \E k \in Keys, d \in Payloads : CallSet(k, d)
    \/ \E k \in Keys : CallGet(k)
    \/ \E k \in Keys : CallHas(k)
    \/ \E k \in Keys : CallIsStale(k)
    \/ \E k \in Keys : CallClear(k)
    \/ CallClearAll
    \/ CallGetStats
    \/ \E k \in Keys : CallMarkStale(k)
    \/ \E d \in TickSteps : Tick(d)

CacheSpec == Init /\ [][CacheNext]_vars

Next ==
    \/ \E n \in Pages : Mount(n)
    \/ Unmount
    \/ Render
    \/ ClickRefresh
    \/ HandleConnect
    \/ RefreshData
    \/ SseOpen
    \/ \E d \in Payloads : SseMessage(d)
    \/ SseError
    \/ SseClose
    \/ SseReconnect
    \/ \E d \in TickSteps : Tick(d)

Spec == Init /\ [][Next]_vars

(* ---------------------------------------------------------------------- *)
(* shouldShowLoading as a function of its seven inputs: every combination  *)
(* of them is drawn at the start and the function applied to it            *)
(* ---------------------------------------------------------------------- *)

LoadingInputs ==
    [url : {"", SSE_URL}, initialLoad : BOOLEAN, cachedExists : BOOLEAN,
     forceRefresh : BOOLEAN, cachedIsStale : BOOLEAN, isConnecting : BOOLEAN,
     sseLoading : BOOLEAN]

LoadingInit ==
    /\ now = 0
    /\ cache = [x \in {} |-> CacheEntry(NULL, 0, FALSE)]
    /\ page = NoPage
    /\ hook = HookInit
    /\ sse = SseIdle
    /\ \E i \in LoadingInputs : last = [op |-> "inputs", in |-> i, loading |-> FALSE]

EvalLoading ==
    /\ last.op = "inputs"
    /\ last' = [op |-> "shouldShowLoading", in |-> last.in,
                loading |-> shouldShowLoading(last.in.url, last.in.initialLoad,
                                last.in.cachedExists, last.in.forceRefresh,
                                last.in.cachedIsStale, last.in.isConnecting,
                                last.in.sseLoading)]
    /\ UNCHANGED <<now, cache, appVars>>

LoadingSpec == LoadingInit /\ [][EvalLoading]_vars

(* ---------------------------------------------------------------------- *)
(* Properties of the cache, checked under CacheSpec                        *)
(* ---------------------------------------------------------------------- *)

\* C1: a get(k) issued right after set(k, v), with no time elapsed and no
\* other call in between, returns v, whatever entry k held before the set.
C1_GetAfterSet ==
    [][\A k \in Keys :
          (last.op = "set" /\ last.key = k /\ last'.op = "get" /\ last'.key = k
             /\ now' = now)
          => last'.ret = last.arg]_vars

\* a get has just returned the payload of an entry written at this instant,
\* later than the start of the run
C1_Witness ==
    /\ last.op = "get" /\ last.had
    /\ last.key \in DOMAIN cache
    /\ cache[last.key].timestamp = now /\ now > 0
    /\ last.ret = cache[last.key].data

\* C2: get(k) on an entry older than the expiry threshold returns absent and
\* removes the entry: has(k) is then false and getStats() no longer lists k,
\* and k gets an entry again only by a set(k, _).
C2_ExpiredGetRemoves ==
    [][\A k \in Keys :
          /\ (last'.op = "get" /\ last'.key = k /\ k \in DOMAIN cache
                /\ now - cache[k].timestamp > CACHE_DURATION)
             => /\ last'.ret = NULL
                /\ k \notin DOMAIN cache'
                /\ ~has(cache', k, now')
                /\ k \notin getStats(cache', now').keys
                /\ \A e \in getStats(cache', now').entries : e.key # k
          /\ (k \notin DOMAIN cache /\ k \in DOMAIN cache')
             => (last'.op = "set" /\ last'.key = k)]_vars

\* a get has just found an entry, reported it absent and removed it
C2_Witness ==
    /\ last.op = "get" /\ last.had /\ last.ret = NULL
    /\ last.key \notin DOMAIN cache
    /\ now > CACHE_DURATION

\* C3: once markStale(k) has flagged an existing entry, isStale(k) returns
\* true whatever the entry's age, for as long as the entry is neither
\* replaced nor removed.
C3_MarkedIsStale ==
    (last.op = "isStale" /\ last.key \in DOMAIN cache /\ cache[last.key].isStale)
    => last.flag

\* C4: markStale(k) on a key without an entry creates no entry and leaves the
\* whole cache as it was.
C4_MarkStaleAbsentNoOp ==
    [][\A k \in Keys :
          (last'.op = "markStale" /\ last'.key = k /\ k \notin DOMAIN cache)
          => (cache' = cache /\ k \notin DOMAIN cache')]_vars

\* markStale has just been called on a key without an entry while another
\* key holds one
C4_Witness ==
    /\ last.op = "markStale" /\ ~last.had
    /\ last.key \notin DOMAIN cache
    /\ DOMAIN cache # {}

\* C5: after clearAll() the size getStats() reports is 0 and has(k) is false
\* for every key that held an entry before the call.
C5_ClearAllEmpties ==
    [][last'.op = "clearAll"
          => /\ getStats(cache', now').size = 0
             /\ \A k \in DOMAIN cache : ~has(cache', k, now')]_vars

\* clearAll has just been called on a cache that held entries, some of them
\* written after the start of the run
C5_Witness ==
    /\ last.op = "clearAll" /\ last.had
    /\ now > 0
    /\ DOMAIN cache = {}

\* C11: has(k) returns true exactly when k has an entry whose age is at most
\* the expiry threshold, and the call leaves the cache as it was: an expired
\* entry stays, with its payload, timestamp and stale flag.
C11_HasByAgeNoMutation ==
    [][\A k \in Keys :
          (last'.op = "has" /\ last'.key = k)
          => /\ last'.flag <=> (k \in DOMAIN cache
                                  /\ now - cache[k].timestamp <= CACHE_DURATION)
             /\ cache' = cache]_vars

\* has has just returned false for an expired entry, which is still in the
\* cache
C11_Witness ==
    /\ last.op = "has" /\ last.had /\ ~last.flag
    /\ last.key \in DOMAIN cache
    /\ now - cache[last.key].timestamp > CACHE_DURATION

\* C12: isStale(k) returns true exactly when k has an entry whose age exceeds
\* the staleness threshold, and the call leaves the cache as it was.
C12_IsStaleByAgeNoMutation ==
    [][\A k \in Keys :
          (last'.op = "isStale" /\ last'.key = k)
          => /\ last'.flag <=> (k \in DOMAIN cache
                                  /\ now - cache[k].timestamp > STALE_DURATION)
             /\ cache' = cache]_vars

\* isStale has just returned true for an entry older than the staleness
\* threshold; the entry is still in the cache and its flag is still unset
C12_Witness ==
    /\ last.op = "isStale" /\ last.flag
    /\ last.key \in DOMAIN cache
    /\ ~cache[last.key].isStale
    /\ now - cache[last.key].timestamp > STALE_DURATION

\* C13: get serves stale-but-usable data: a get(k) on an entry whose age
\* exceeds the staleness threshold marks the entry stale, still returns its
\* payload, and leaves the entry in the cache with stale = true.
C13_StaleStillServed ==
    [][\A k \in Keys :
          (last'.op = "get" /\ last'.key = k /\ k \in DOMAIN cache
             /\ now - cache[k].timestamp > STALE_DURATION)
          => /\ last'.ret = cache[k].data
             /\ k \in DOMAIN cache'
             /\ cache'[k].isStale]_vars

\* what the code does instead: no get ever returns the payload of an entry it
\* found older than the staleness threshold, nor leaves such an entry behind
GetNeverServesStale ==
    [][\A k \in Keys :
          (last'.op = "get" /\ last'.key = k /\ k \in DOMAIN cache
             /\ now - cache[k].timestamp > STALE_DURATION)
          => (last'.ret = NULL /\ k \notin DOMAIN cache')]_vars

\* C14: the cache holds at most one entry per key (getStats() lists each key
\* once), and set(k, v) replaces the whole entry of k: afterwards its payload
\* is v, its timestamp the current time and its stale flag false, whatever
\* the entry was before, and the other keys keep their entries.
C14_SetReplaces ==
    [][/\ Cardinality(getStats(cache', now').entries) = getStats(cache', now').size
       /\ \A e1, e2 \in getStats(cache', now').entries : e1.key = e2.key => e1 = e2
       /\ \A k \in Keys :
             (last'.op = "set" /\ last'.key = k)
             => /\ k \in DOMAIN cache'
                /\ cache'[k] = CacheEntry(last'.arg, now, FALSE)
                /\ \A j \in Keys \ {k} :
                      /\ (j \in DOMAIN cache') = (j \in DOMAIN cache)
                      /\ j \in DOMAIN cache => cache'[j] = cache[j]]_vars

\* set has just replaced an existing entry at a later instant while the
\* other key holds an older entry flagged stale
C14_Witness ==
    /\ last.op = "set" /\ last.had
    /\ now > 0
    /\ cache[last.key] = CacheEntry(last.arg, now, FALSE)
    /\ \E j \in DOMAIN cache : j # last.key /\ cache[j].isStale
                                  /\ cache[j].timestamp < now

(* ---------------------------------------------------------------------- *)
(* Properties of the hook, checked under Spec                              *)
(* ---------------------------------------------------------------------- *)

\* the view a render of the mounted page would return in the current state
CurrentView == RenderOutcome(page, hook, sse, cache, now).view

\* C6: once a message with any payload p has arrived (no forced refresh in
\* flight), the view the hook returns has data = p and isStale = false, also
\* when the cache entry or the view was stale before the message.
C6_MessageShown ==
    [][(last.op = "message" /\ last'.op = "render" /\ ~page.forceRefresh)
          => (last'.view.data = last.arg /\ ~last'.view.isStale)]_vars

\* C7: while the URL is empty the view's loading is false, in the view just
\* returned and in the one a render would return now, and the subscription
\* has made no connection attempt.
C7_EmptyUrlNeverLoading ==
    (Mounted /\ UrlOf(page) = "")
    => /\ sse.status = "idle"
       /\ ~CurrentView.loading
       /\ (last.op \in {"mount", "render"} => ~last.view.loading)

\* a page with an empty URL has rendered although its key has no usable
\* cache entry and its initial load is still pending
C7_Witness ==
    /\ Mounted /\ UrlOf(page) = ""
    /\ last.op = "render"
    /\ hook.initialLoad
    /\ ~has(cache, KeyOf(page), now)

\* C8: cold start.  Mounted with no cache entry and a non-empty URL, the hook
\* returns loading = true and data = null until the first message; after
\* that message, with payload p, it returns data = p, loading = false,
\* isCached = true, isStale = false.
C8_ColdStart ==
    [][/\ (Mounted' /\ page'.coldStart /\ UrlOf(page') # ""
             /\ last'.op \in {"mount", "render"})
          => (last'.view.loading /\ last'.view.data = NULL)
       /\ (last.op = "message" /\ last.flag /\ last'.op = "render"
             /\ ~page.forceRefresh)
          => last'.view = [data |-> last.arg, loading |-> FALSE,
                           isCached |-> TRUE, isStale |-> FALSE]]_vars

\* C9: with a cache entry older than the staleness threshold and the stream
\* still connecting (no message received yet), the hook returns
\* isStale = true, the old cached payload as data, and loading = true.
C9_StaleEntryServed ==
    [][(Mounted /\ last'.op = "render"
          /\ KeyOf(page) \in DOMAIN cache
          /\ now - cache[KeyOf(page)].timestamp > STALE_DURATION
          /\ Truthy(cache[KeyOf(page)].data)
          /\ sseIsConnecting(sse) /\ sse.data = NULL)
          => /\ last'.view.isStale
             /\ last'.view.data = cache[KeyOf(page)].data
             /\ last'.view.loading]_vars

\* the key of the mounted page has an entry that refreshData (or markStale)
\* flagged after it was written
Flagged == Mounted /\ KeyOf(page) \in DOMAIN cache /\ cache[KeyOf(page)].isStale

\* a refreshData() call made while a fresh entry exists
RefreshOfFresh ==
    /\ last'.op = "refreshData"
    /\ has(cache, KeyOf(page), now)
    /\ ~cache[KeyOf(page)].isStale

\* what refreshData() itself does to a fresh entry: flag and isStale become
\* true, payload and timestamp stay, the data a render returns stays
RefreshKeepsData ==
    RefreshOfFresh
    => /\ cache' = [cache EXCEPT ![KeyOf(page)].isStale = TRUE]
       /\ hook'.isStale
       /\ CurrentView'.isStale
       /\ CurrentView'.data = CurrentView.data

\* no forced refresh is requested or being applied across the step
NoForcedRefresh == ~page.forceRefresh /\ ~page'.forceRefresh

\* C10 as stated: refreshData() on a fresh entry flags the entry and the view
\* stale and leaves payload and data unchanged, and from then on (no forced
\* refresh being requested) the data the hook returns stays the same until
\* a new message arrives.
C10_DataUntilMessage ==
    [][/\ RefreshKeepsData
       /\ (Flagged /\ Mounted' /\ NoForcedRefresh /\ last'.op # "message")
          => CurrentView'.data = CurrentView.data]_vars

\* C10 as amended: the same, with the data kept until a new message arrives
\* or the entry expires.
C10_DataUntilMessageOrExpiry ==
    [][/\ RefreshKeepsData
       /\ (Flagged /\ Mounted' /\ NoForcedRefresh /\ last'.op # "message"
             /\ has(cache', KeyOf(page), now'))
          => CurrentView'.data = CurrentView.data]_vars

\* refreshData() has just been called on a fresh entry whose payload the
\* hook is serving from the cache, no live message having arrived
C10_Witness ==
    /\ last.op = "refreshData" /\ last.had
    /\ Flagged /\ hook.isStale
    /\ has(cache, KeyOf(page), now)
    /\ sse.data = NULL
    /\ CurrentView.data = cache[KeyOf(page)].data
    /\ Truthy(CurrentView.data)

\* C15: a stream error is forwarded to onError (the event's flag) and leaves
\* the cache, hence the entry of the key with its payload, timestamp and
\* stale flag, and the data the hook returns as they were; so after any
\* number of errors with no new message the last good snapshot is returned.
C15_ErrorKeepsSnapshot ==
    [][last'.op = "error"
          => /\ last'.flag
             /\ cache' = cache
             /\ CurrentView'.data = CurrentView.data]_vars

\* an error has just occurred while the hook serves a cached snapshot, no
\* live message having arrived on this mount
C15_Witness ==
    /\ last.op = "error" /\ last.had
    /\ sse.data = NULL
    /\ has(cache, KeyOf(page), now)
    /\ Truthy(CurrentView.data)
    /\ CurrentView.data = cache[KeyOf(page)].data

\* C16: last write wins and no message is dropped.  Every message is written
\* to the cache under the key of the feed with its payload and the current
\* time; the payload of an entry changes only by a message for its key, and
\* an entry disappears only by a render that applies a forced refresh or
\* reads it after its expiry.
C16_LastWriteWins ==
    [][/\ last'.op = "message"
          => /\ last'.key = KeyOf(page)
             /\ last'.key \in DOMAIN cache'
             /\ cache'[last'.key].data = last'.arg
             /\ cache'[last'.key].timestamp = now
       /\ \A k \in DOMAIN cache :
             /\ (k \in DOMAIN cache' /\ cache'[k].data # cache[k].data)
                => (last'.op = "message" /\ last'.key = k)
             /\ k \notin DOMAIN cache'
                => /\ last'.op \in {"mount", "render"} /\ last'.key = k
                   /\ \/ page.forceRefresh
                      \/ now - cache[k].timestamp > CACHE_DURATION]_vars

\* a later message has just overwritten the entry an earlier message wrote
C16_Witness ==
    /\ last.op = "message" /\ last.had /\ ~last.flag
    /\ now > 0
    /\ cache[last.key] = CacheEntry(last.arg, now, FALSE)

ForcedRender ==
    /\ Mounted /\ page.forceRefresh /\ ~hook.depForce
    /\ hook.depCached # NULL
    /\ last.op = "forceRefresh" /\ last'.op = "render"

\* LOADING_COLD after a step: the key has no entry, initial-load tracking is
\* armed, isCached and isStale are false, and with a non-empty URL the view
\* is loading
LoadingColdAfter ==
    /\ KeyOf(page) \notin DOMAIN cache'
    /\ hook'.initialLoad /\ ~hook'.isCached /\ ~hook'.isStale
    /\ UrlOf(page) # "" => (last'.view.loading /\ CurrentView'.loading)

\* no entry for the key, initial load armed, URL not empty
Cold ==
    /\ Mounted /\ KeyOf(page) \notin DOMAIN cache
    /\ hook.initialLoad /\ UrlOf(page) # ""

ForceRefreshUnlessMessagePending ==
    [][ForcedRender
          => (LoadingColdAfter
                <=> (hook.depSse = sse.data \/ ~Truthy(sse.data)))]_vars

\* C19: the data of every view is the latest live message if there is one and
\* no forced refresh is set, otherwise the cached payload if there is one
\* and no forced refresh is set, otherwise absent; so it is absent whenever
\* forceRefresh is set.
C19_DataResolution ==
    [][last'.op \in {"mount", "render"}
          => LET cached == get(cache, last'.key, now).ret
                 force == page.forceRefresh
             IN /\ last'.view.data =
                      (IF sse.data # NULL /\ ~force THEN sse.data
                       ELSE IF cached # NULL /\ ~force THEN cached
                       ELSE NULL)
                /\ force => last'.view.data = NULL]_vars

\* the decision list for loading, in the order the claim gives it
LoadingDecisionList(i) ==
    IF i.url = "" THEN FALSE
    ELSE IF i.initialLoad /\ ~i.cachedExists THEN TRUE
    ELSE IF i.forceRefresh THEN TRUE
    ELSE IF i.cachedExists /\ i.cachedIsStale /\ i.isConnecting THEN TRUE
    ELSE IF i.cachedExists /\ ~i.cachedIsStale THEN FALSE
    ELSE i.sseLoading

\* C20: for every combination of (URL empty, first load, cache entry exists,
\* cache entry stale, forceRefresh, subscription connecting, subscription
\* loading) loading is the result of the ordered decision list: false if the
\* URL is empty; true if first load and no cache entry; true if forceRefresh;
\* true if the entry is stale and a reconnect is in progress; false if a
\* fresh entry exists; otherwise the subscription's loading flag.
C20_LoadingDecision ==
    last.op = "shouldShowLoading" => last.loading = LoadingDecisionList(last.in)

\* loading has been decided for a stale entry with a reconnect in progress,
\* no first load, no forced refresh and a subscription that is not loading
C20_Witness ==
    /\ last.op = "shouldShowLoading"
    /\ last.in.url # "" /\ ~last.in.initialLoad /\ ~last.in.forceRefresh
    /\ last.in.cachedExists /\ last.in.cachedIsStale /\ last.in.isConnecting
    /\ ~last.in.sseLoading
    /\ last.loading

\* the loading of every view the hook returns is the decision list applied
\* to the URL, the hook's state, the cache and the subscription at the render
RenderLoadingByDecisionList ==
    [][last'.op \in {"mount", "render"}
          => LET c == get(cache, last'.key, now).cache
                 p == IF last'.op = "mount" THEN page' ELSE page
             IN last'.view.loading =
                   LoadingDecisionList(
                      [url |-> UrlOf(p), initialLoad |-> hook.initialLoad,
                       cachedExists |-> has(c, last'.key, now),
                       forceRefresh |-> page.forceRefresh,
                       cachedIsStale |-> isStale(c, last'.key, now),
                       isConnecting |-> sseIsConnecting(sse),
                       sseLoading |-> sse.loading])]_vars

\* C21: mounted without forceRefresh while the key has a fresh entry, the
\* hook returns in its very first view the cached payload as data and
\* loading = false, before the stream has opened or delivered anything.
C21_FreshCacheAtMount ==
    [][(last'.op = "mount" /\ has(cache, last'.key, now))
          => /\ last'.view.data = cache[last'.key].data
             /\ ~last'.view.loading]_vars

\* the same for the payloads JavaScript takes as true
FreshTruthyCacheAtMount ==
    [][(last'.op = "mount" /\ has(cache, last'.key, now)
          /\ Truthy(cache[last'.key].data))
          => /\ last'.view.data = cache[last'.key].data
             /\ ~last'.view.loading
             /\ sse'.data = NULL /\ ~sseIsConnected(sse')]_vars

\* the operations that act on one key
KeyedOps ==
    {"set", "get", "has", "isStale", "clear", "markStale",
     "message", "refreshData", "forceRefresh", "mount", "render"}

\* C22: keys are independent.  A set, get, has, isStale, clear or markStale
\* on key k, and a message, a refreshData, a forceRefresh request or a
\* render of the hook mounted for k (which reads k and applies the forced
\* refresh), leave the entry of every other key as it was: its existence,
\* payload, timestamp and stale flag.
C22_KeysIndependent ==
    [][\A j \in Keys :
          (last'.op \in KeyedOps /\ last'.key # j)
          => /\ (j \in DOMAIN cache') = (j \in DOMAIN cache)
             /\ j \in DOMAIN cache => cache'[j] = cache[j]]_vars

\* a forced refresh has just cleared the entry of the mounted page's key
\* while the other key holds an entry that is already expired
C22_Witness ==
    /\ Mounted /\ last.op = "render" /\ last.had
    /\ hook.depForce
    /\ KeyOf(page) \notin DOMAIN cache
    /\ \E j \in DOMAIN cache : now - cache[j].timestamp > CACHE_DURATION

\* C23: on every message the payload is first written through to the cache
\* under the key, with the current time and stale = false, then the hook's
\* stale flag is cleared and the caller's onMessage invoked; and once the
\* message is handled (the hook has rendered for it and run its effects,
\* no forced refresh being applied) the initial-load flag is false,
\* whatever the payload.
C23_MessageClearsFlags ==
    [][/\ last'.op = "message"
          => /\ cache'[last'.key] = CacheEntry(last'.arg, now, FALSE)
             /\ ~hook'.isStale
       /\ (last.op = "message" /\ last'.op = "render" /\ ~page.forceRefresh)
          => ~hook'.initialLoad]_vars

\* the same for a payload JavaScript takes as true that differs from the
\* previous message
TruthyMessageClearsFlags ==
    [][(last.op = "message" /\ last'.op = "render" /\ ~page.forceRefresh
          /\ Truthy(last.arg) /\ hook.depSse # last.arg)
          => ~hook'.initialLoad]_vars

\* C24: forceRefresh is a one-shot pulse.  The render that sees it true
\* clears the cache entry and the page resets it to false, so no second
\* render sees the same request; and a render without a request removes the
\* entry only if it has expired.
C24_ForceRefreshPulse ==
    [][/\ page.forceRefresh => ~hook.depForce
       /\ (Mounted /\ page.forceRefresh /\ last'.op = "render")
          => /\ KeyOf(page) \notin DOMAIN cache'
             /\ ~page'.forceRefresh
       /\ (Mounted /\ ~page.forceRefresh /\ last'.op = "render"
             /\ KeyOf(page) \in DOMAIN cache
             /\ now - cache[KeyOf(page)].timestamp <= CACHE_DURATION)
          => KeyOf(page) \in DOMAIN cache']_vars

\* a render has just applied a forced refresh: the entry the key had is
\* gone and forceRefresh is false again
C24_Witness ==
    /\ Mounted /\ last.op = "render" /\ last.had
    /\ hook.depForce /\ ~page.forceRefresh
    /\ KeyOf(page) \notin DOMAIN cache

\* C25: lifecycle of an entry.  An entry for a key appears only by a message
\* delivered to the hook mounted for that key, and disappears only by a get
\* that reads it after its expiry, by a clear of the key (the one a forced
\* refresh does) or by clearAll; has, isStale, markStale (refreshData),
\* getStats and the passage of time neither add nor remove an entry.
C25_EntryLifecycle ==
    [][\A k \in Keys :
          /\ (k \notin DOMAIN cache /\ k \in DOMAIN cache')
             => (last'.op = "message" /\ last'.key = k)
          /\ (k \in DOMAIN cache /\ k \notin DOMAIN cache')
             => \/ /\ last'.op \in {"get", "mount", "render"} /\ last'.key = k
                   /\ now - cache[k].timestamp > CACHE_DURATION
                \/ last'.op = "clear" /\ last'.key = k
                \/ last'.op = "render" /\ last'.key = k /\ page.forceRefresh
                \/ last'.op = "clearAll"
          /\ last'.op \in {"has", "isStale", "markStale", "refreshData",
                            "getStats", "tick"}
             => DOMAIN cache' = DOMAIN cache]_vars

\* refreshData has just flagged an entry that expired as time passed and is
\* still in the cache
C25_Witness ==
    /\ last.op = "refreshData" /\ last.had
    /\ KeyOf(page) \in DOMAIN cache
    /\ cache[KeyOf(page)].isStale
    /\ now - cache[KeyOf(page)].timestamp > CACHE_DURATION

\* C26: at every time and for every key has(k) and isStale(k) are not both
\* true, also on the cache as get leaves it in a render; so the loading rule
\* 'entry stale and reconnect in progress' never applies.
C26_HasAndStaleExclusive ==
    /\ \A k \in Keys : ~(has(cache, k, now) /\ isStale(cache, k, now))
    /\ \A k \in Keys :
          LET c == get(cache, k, now).cache
          IN ~(has(c, k, now) /\ isStale(c, k, now) /\ sseIsConnecting(sse))

\* the key of the mounted page has an entry older than the staleness
\* threshold while the subscription is reconnecting
C26_Witness ==
    /\ Mounted /\ sseIsConnecting(sse)
    /\ hook.rendered /\ ~hook.initialLoad
    /\ isStale(cache, KeyOf(page), now)

\* C27: in every render the hook reads isStale(key) after get(key) and gets
\* false, whatever the age of the entry; the hook's isStale becomes true
\* only by refreshData(), is false after every message and after every
\* render that applies a forced refresh, and a view reports isStale = true
\* only while the hook's isStale is true.
C27_StaleOnlyByRefreshData ==
    [][/\ last'.op \in {"mount", "render"}
          => /\ ~isStale(get(cache, last'.key, now).cache, last'.key, now)
             /\ last'.view.isStale => hook.isStale
       /\ (~hook.isStale /\ hook'.isStale) => last'.op = "refreshData"
       /\ last'.op = "message" => ~hook'.isStale
       /\ (last'.op = "render" /\ page.forceRefresh) => ~hook'.isStale]_vars

\* a view has just reported isStale = true, set by refreshData, in a render
\* whose get removed the entry because it was older than the staleness
\* threshold
C27_Witness ==
    /\ last.op = "render" /\ last.had
    /\ last.view.isStale
    /\ KeyOf(page) \notin DOMAIN cache
    /\ now > STALE_DURATION
    /\ ~hook.depForce

\* C28: whenever a view reports isCached = true the cache holds a
\* non-expired entry for the key, has(key) is true, also after the entry has
\* aged past the expiry threshold with no new message.
C28_IsCachedImpliesHas ==
    [][(Mounted /\ last'.op = "render" /\ ~page.forceRefresh
          /\ KeyOf(page) \in DOMAIN cache
          /\ last'.view.isCached)
          => has(cache', last'.key, now')]_vars

C30_StatsConsistent ==
    last.op = "getStats"
    => LET st == getStats(cache, now)
       IN /\ st.size = Cardinality(st.keys)
          /\ st.size = Cardinality(st.entries)
          /\ \A e \in st.entries : e.isStale = isStale(cache, e.key, now)

\* what holds of getStats(): it changes nothing and its size is the number
\* of keys and of entries
StatsReadOnly ==
    [][last'.op = "getStats"
          => /\ cache' = cache
             /\ last'.ret = Cardinality(DOMAIN cache)
             /\ getStats(cache, now).keys = DOMAIN cache
             /\ Cardinality(getStats(cache, now).entries) = last'.ret]_vars

====
